---- MODULE Spec2Model ----
(***************************************************************************)
(* Model of the worker-pool TimedMap (src/unnamed/part_004): a key-indexed *)
(* store paired with a min-expiry heap (container/heap over expiryHeap),   *)
(* the background cleaner goroutine, the bounded expiration worker pool    *)
(* and the cleaner's stop / start protocol.                                *)
(*                                                                         *)
(* Every public method that runs between t.mu.Lock() and t.mu.Unlock() is  *)
(* one action: the lock makes its body atomic with respect to every other  *)
(* critical section.  StopCleaner, the cleaner goroutine, the workers and  *)
(* the overflow goroutines are split at their blocking points.             *)
(***************************************************************************)
EXTENDS Integers, Sequences, FiniteSets, TLC

\* ------------------------------------------------------------------------
\* Bounds of the model
\* ------------------------------------------------------------------------
NumKeys == 2
\* values a caller may store
MaxVal == 1
\* the clock runs from 1 to MaxTime (UnixNano, scaled)
MaxTime == 2
\* number of public API calls in one run
MaxOps == 4
\* number of public API calls in a run with concurrent StopCleaner/StartCleaner callers
MaxRaceOps == 3
\* number of caller goroutines that may call StopCleaner/StartCleaner/RestartCleaner
NumCallers == 2
\* number of cleaner goroutines ever started (New starts the first)
MaxGen == 2
\* capacity of expireQueue (1024 in New), scaled down
QueueCap == 1
\* workerCount passed to New
NumWorkers == 1
\* live *element objects (referenced from items or from the heap)
MaxEl == NumKeys + (MaxOps \div 3)
\* largest ttl passed to SetWithTTL
MaxTTL == 1

\* ------------------------------------------------------------------------
\* Program constants
\* ------------------------------------------------------------------------
ElementDoesntExist == -1
ElementPermanent == 0

Keys == 1..NumKeys
Vals == 1..MaxVal
Times == 0..MaxTime
Callers == 1..NumCallers
Gens == 1..MaxGen
Workers == 1..NumWorkers
ElIds == 1..MaxEl

\* the zero time.Time (expiresAt.IsZero()); its UnixNano is not 0
ZeroTime == -2

\* t.mu is unlocked
Free == <<"none", 0>>

\* a free slot of the element arena; index -1 is "not in the heap"
NoEl == [key |-> 0, val |-> 0, exp |-> 0, index |-> -1, pops |-> 0]

VARIABLES
    now,        \* time.Now().UnixNano()
    els,        \* the *element objects: id -> [key, val, exp, index], pops is a history field
    items,      \* t.items: key -> element id, 0 when absent
    expHeap,    \* t.expHeap: sequence of element ids, Go index i is position i+1
    stats,      \* t.stats
    onExpire,   \* TRUE when the callback passed to New is non-nil
    stopped,    \* t.stopped
    gen,        \* number of startCleaner calls that started a goroutine; t.stopCh and t.signalCleaner belong to cleaner gen
    stopClosed, \* stopClosed[g]: the stop channel made for cleaner g is closed
    cleaner,    \* the cleaner goroutines
    queue,      \* t.expireQueue
    queueClosed,
    worker,     \* the expiration workers
    overflow,   \* goroutines spawned by the default branch of the send, not yet finished
    caller,     \* callers of StopCleaner / StartCleaner / RestartCleaner; g is a history field, the cleaner the call stops
    panicked,   \* "none", or the runtime panic that ended the program
    last,       \* history: the last public call [op, key, arg, was, ret]; was is the kind of key before it
    delivered,  \* history: delivered[k] = completed onExpire(k, _) invocations
    stopRet,    \* history: a StopCleaner call has returned and StartCleaner was not called since
    popLog,     \* history of the cleaner's pops: [lastExp, runOrdered, drainOrdered]
    opCount,    \* public API calls made so far
    mu,         \* t.mu: Free, or the task that holds it across steps
    liveKeys,   \* history: the keys set by a call and not removed by a later call
    lib,        \* the TimedMap of the library package (part_000 with the cleaner of part_003)
    ttlMap      \* the timer-based TTLMap (part_002)

vars == <<now, els, items, expHeap, stats, onExpire, stopped, gen, stopClosed, cleaner,
          queue, queueClosed, worker, overflow, caller, panicked, last, delivered,
          stopRet, popLog, opCount, mu, liveKeys, lib, ttlMap>>

storeVars == <<els, items, expHeap, stats>>
poolVars == <<queue, queueClosed, worker, overflow, delivered>>
ctlVars == <<stopped, gen, stopClosed, caller, stopRet>>

\* ------------------------------------------------------------------------
\* expiryHeap and container/heap.  A heap state hs is [h |-> ids, e |-> els].
\* ------------------------------------------------------------------------
Less(hs, i, j) == hs.e[hs.h[i + 1]].exp < hs.e[hs.h[j + 1]].exp

Swap(hs, i, j) ==
    LET h2 == [hs.h EXCEPT ![i + 1] = hs.h[j + 1], ![j + 1] = hs.h[i + 1]]
        e1 == [hs.e EXCEPT ![h2[i + 1]].index = i]
        e2 == [e1 EXCEPT ![h2[j + 1]].index = j]
    IN [h |-> h2, e |-> e2]

\* expiryHeap.Push
HPush(hs, id) ==
    [h |-> Append(hs.h, id), e |-> [hs.e EXCEPT ![id].index = Len(hs.h)]]

\* expiryHeap.Pop: drops the last slot; the popped id is Last(hs)
HPop(hs) ==
    LET n == Len(hs.h)
        id == hs.h[n]
    IN [h |-> SubSeq(hs.h, 1, n - 1), e |-> [hs.e EXCEPT ![id].index = -1]]

Last(hs) == hs.h[Len(hs.h)]

RECURSIVE up(_, _)
up(hs, j) ==
    IF j = 0 THEN hs
    ELSE LET i == (j - 1) \div 2
         IN IF ~Less(hs, j, i) THEN hs ELSE up(Swap(hs, i, j), i)

\* down returns the heap and the final position i (the caller tests i > i0)
RECURSIVE down(_, _, _)
down(hs, i, n) ==
    LET j1 == 2 * i + 1 IN
    IF j1 >= n THEN [hs |-> hs, i |-> i]
    ELSE LET j2 == j1 + 1
             j == IF j2 < n /\ Less(hs, j2, j1) THEN j2 ELSE j1
         IN IF ~Less(hs, j, i) THEN [hs |-> hs, i |-> i]
            ELSE down(Swap(hs, i, j), j, n)

heapPush(hs, id) ==
    LET p == HPush(hs, id) IN up(p, Len(p.h) - 1)

\* heap.Pop: the popped element is Last of the result of heapPopSift
heapPopSift(hs) ==
    LET n == Len(hs.h) - 1
        s == Swap(hs, 0, n)
    IN down(s, 0, n).hs

heapRemoveSift(hs, i) ==
    LET n == Len(hs.h) - 1 IN
    IF n # i
    THEN LET s == Swap(hs, i, n)
             d == down(s, i, n)
         IN IF d.i > i THEN d.hs ELSE up(d.hs, i)
    ELSE hs

heapRemove(hs, i) == HPop(heapRemoveSift(hs, i))

heapFix(hs, i) ==
    LET d == down(hs, i, Len(hs.h)) IN
    IF d.i > i THEN d.hs ELSE up(d.hs, i)

\* ------------------------------------------------------------------------
\* The element arena
\* ------------------------------------------------------------------------
Range(f) == {f[x] : x \in DOMAIN f}

Referenced(it, h) == (Range(it) \cup Range(h)) \ {0}

FreeIds(it, h) == ElIds \ Referenced(it, h)

\* &element{...}: the least free slot
NewId(it, h) == CHOOSE id \in FreeIds(it, h) : \A o \in FreeIds(it, h) : id <= o

\* an element no longer reachable from t.items or t.expHeap is garbage
Collect(e, it, h) ==
    [id \in ElIds |-> IF id \in Referenced(it, h) THEN e[id] ELSE NoEl]

\* ------------------------------------------------------------------------
\* The store: S is [e |-> els, it |-> items, h |-> expHeap, st |-> stats].
\* Each method returns the store after the call, sig (signalCleaner was
\* called) and ret (the value returned, TRUE for methods without result).
\* ------------------------------------------------------------------------
Store == [e |-> els, it |-> items, h |-> expHeap, st |-> stats]

HS(S) == [h |-> S.h, e |-> S.e]

WithHeap(S, hs) == [S EXCEPT !.h = hs.h, !.e = hs.e]

Kind(S, k) ==
    IF k \notin Keys THEN "none"
    ELSE IF S.it[k] = 0 THEN "absent"
    ELSE IF S.e[S.it[k]].exp = ElementPermanent THEN "perm" ELSE "temp"

\* len(t.expHeap) > 0 && t.expHeap[0] == t.items[key]
IsRoot(S, k) == Len(S.h) > 0 /\ S.h[1] = S.it[k]

Result(S, sig, r) ==
    [S |-> [S EXCEPT !.e = Collect(S.e, S.it, S.h)], sig |-> sig, ret |-> r, out |-> <<>>]

SetTemporaryOp(S, k, v, exp) ==
    LET id == S.it[k] IN
    IF id # 0
    THEN LET S1 == [S EXCEPT !.e[id].val = v]
             S2 == IF S1.e[id].exp # ElementPermanent
                   THEN LET S3 == [S1 EXCEPT !.e[id].exp = exp]
                        IN IF S3.e[id].index >= 0
                           THEN WithHeap(S3, heapFix(HS(S3), S3.e[id].index))
                           ELSE WithHeap(S3, heapPush(HS(S3), id))
                   ELSE S1
         IN Result(S2, IsRoot(S2, k), TRUE)
    ELSE LET n == NewId(S.it, S.h)
             S1 == [S EXCEPT !.e[n] = [key |-> k, val |-> v, exp |-> exp, index |-> 0, pops |-> 0],
                             !.it[k] = n]
             S2 == IF exp # ElementPermanent
                   THEN WithHeap(S1, heapPush(HS(S1), n))
                   ELSE [S1 EXCEPT !.st.permanent = @ + 1]
             S3 == [S2 EXCEPT !.st.added = @ + 1]
         IN Result(S3, IsRoot(S3, k), TRUE)

SetPermanentOp(S, k, v) ==
    LET id == S.it[k] IN
    IF id # 0
    THEN LET S1 == [S EXCEPT !.e[id].val = v]
             S2 == IF S1.e[id].exp # ElementPermanent
                   THEN LET S3 == IF S1.e[id].index >= 0
                                  THEN WithHeap(S1, heapRemove(HS(S1), S1.e[id].index))
                                  ELSE S1
                        IN [S3 EXCEPT !.st.permanent = @ + 1]
                   ELSE S1
         IN Result([S2 EXCEPT !.e[id].exp = ElementPermanent], FALSE, TRUE)
    ELSE LET n == NewId(S.it, S.h)
             S1 == [S EXCEPT !.e[n] = [key |-> k, val |-> v, exp |-> ElementPermanent,
                                       index |-> 0, pops |-> 0],
                             !.it[k] = n,
                             !.st.added = @ + 1,
                             !.st.permanent = @ + 1]
         IN Result(S1, FALSE, TRUE)

\* ToPermanent counting every call, also on an element that is already permanent
ToPermanentCounted(S, id) ==
    LET S1 == IF S.e[id].exp # ElementPermanent /\ S.e[id].index >= 0
              THEN WithHeap(S, heapRemove(HS(S), S.e[id].index))
              ELSE S
    IN [S1 EXCEPT !.st.permanent = @ + 1, !.e[id].exp = ElementPermanent]

\* the body shared by MakePermanent and SetExpiry(zero time)
ToPermanent(S, id) ==
    LET S1 == IF S.e[id].exp # ElementPermanent
              THEN LET S2 == IF S.e[id].index >= 0
                             THEN WithHeap(S, heapRemove(HS(S), S.e[id].index))
                             ELSE S
                   IN [S2 EXCEPT !.st.permanent = @ + 1]
              ELSE S
    IN [S1 EXCEPT !.e[id].exp = ElementPermanent]

\* t is ZeroTime or a UnixNano value; clock is time.Now().UnixNano()
SetExpiryOp(S, k, t, clock) ==
    LET id == S.it[k] IN
    IF id = 0 THEN Result(S, FALSE, FALSE)
    ELSE IF t = ZeroTime THEN Result(ToPermanent(S, id), FALSE, TRUE)
    ELSE IF t <= clock
    THEN LET S1 == IF S.e[id].exp # ElementPermanent /\ S.e[id].index >= 0
                   THEN WithHeap(S, heapRemove(HS(S), S.e[id].index))
                   ELSE S
             S2 == [S1 EXCEPT !.it[k] = 0, !.st.removed = @ + 1]
         IN Result(S2, FALSE, FALSE)
    ELSE LET S1 == IF S.e[id].exp = ElementPermanent
                   THEN LET S2 == [S EXCEPT !.e[id].exp = t]
                        IN WithHeap(S2, heapPush(HS(S2), id))
                   ELSE LET S2 == [S EXCEPT !.e[id].exp = t]
                        IN IF S2.e[id].index >= 0
                           THEN WithHeap(S2, heapFix(HS(S2), S2.e[id].index))
                           ELSE S2
         IN Result(S1, Len(S1.h) > 0 /\ S1.h[1] = id, TRUE)

\* Remove deleting temporary keys only
RemoveTemporaryOnly(S, k) ==
    LET id == S.it[k] IN
    IF id = 0 \/ S.e[id].exp = ElementPermanent THEN Result(S, FALSE, TRUE)
    ELSE LET S1 == [S EXCEPT !.it[k] = 0]
             S2 == IF S1.e[id].index >= 0
                   THEN WithHeap(S1, heapRemove(HS(S1), S1.e[id].index))
                   ELSE S1
         IN Result([S2 EXCEPT !.st.removed = @ + 1], FALSE, TRUE)

RemoveOp(S, k) ==
    LET id == S.it[k] IN
    IF id = 0 THEN Result(S, FALSE, TRUE)
    ELSE LET S1 == [S EXCEPT !.it[k] = 0]
             S2 == IF S1.e[id].exp # ElementPermanent /\ S1.e[id].index >= 0
                   THEN WithHeap(S1, heapRemove(HS(S1), S1.e[id].index))
                   ELSE S1
         IN Result([S2 EXCEPT !.st.removed = @ + 1], FALSE, TRUE)

\* RemoveAll replacing the map and leaving the heap as it is
RemoveAllItemsOnly(S) ==
    [S |-> [S EXCEPT !.it = [k \in Keys |-> 0]], sig |-> FALSE, ret |-> TRUE, out |-> <<>>]

RemoveAllOp(S) ==
    Result([S EXCEPT !.it = [k \in Keys |-> 0], !.h = <<>>], FALSE, TRUE)

MakePermanentOp(S, k) ==
    LET id == S.it[k] IN
    IF id = 0 THEN Result(S, FALSE, FALSE)
    ELSE Result(ToPermanent(S, id), FALSE, TRUE)

\* Get returns (value, expiresAt, found); value 0 stands for nil
GetOp(S, k) ==
    IF S.it[k] = 0 THEN <<0, ElementDoesntExist, FALSE>>
    ELSE <<S.e[S.it[k]].val, S.e[S.it[k]].exp, TRUE>>

SizeOp(S) == Cardinality({k \in Keys : S.it[k] # 0})

StatsOp(S) ==
    [added |-> S.st.added, removed |-> S.st.removed, expired |-> S.st.expired,
     permanent |-> S.st.permanent, current |-> SizeOp(S)]

\* ------------------------------------------------------------------------
\* The cleaner's critical section (startCleaner, the loop body under t.mu)
\* ------------------------------------------------------------------------
Sorted(q) == \A i \in 1..(Len(q) - 1) : q[i].exp <= q[i + 1].exp

\* for len(t.expHeap) > 0 && t.expHeap[0].ExpiresAt <= now { heap.Pop; delete; append; expired++ }
\* an expired entry is [key, val, exp, n, by]; n counts the pops of that element
\* object and by is the cleaner that popped it (history fields)
RECURSIVE DrainLoop(_, _, _, _)
DrainLoop(S, clock, g, out) ==
    IF Len(S.h) > 0 /\ S.e[S.h[1]].exp <= clock
    THEN LET sifted == heapPopSift(HS(S))
             id == Last(sifted)
             S1 == WithHeap(S, HPop(sifted))
             S2 == [S1 EXCEPT !.it[S1.e[id].key] = 0,
                              !.e[id].pops = @ + 1,
                              !.st.expired = @ + 1]
             el == [key |-> S2.e[id].key, val |-> S2.e[id].val,
                    exp |-> S2.e[id].exp, n |-> S2.e[id].pops, by |-> g]
         IN DrainLoop(S2, clock, g, Append(out, el))
    ELSE [S |-> [S EXCEPT !.e = Collect(S.e, S.it, S.h)], expired |-> out]

DrainOp(S, clock, g) == DrainLoop(S, clock, g, <<>>)

\* ------------------------------------------------------------------------
\* The library package's TimedMap (part_000) and its cleaner (part_003).
\* lib is [e, it, h, st, stopped, stopClosed, cl, pend, fired, calls, life, pc, op]:
\* e, it, h, st as in the store above; cl is the cleaner goroutine; pend the
\* go t.onExpire(...) goroutines not yet run; fired, calls and life are
\* history fields, op the last method called; pc is the position of the caller
\* of StopCleaner.
\* ------------------------------------------------------------------------
\* number of public calls made on the library's map in one run
MaxLibOps == 4

LibNoCleaner == [pc |-> "none", deadline |-> 0, expired |-> <<>>]

\* startCleaner of part_003: returns at once unless t.stopped (t.stopCh is never nil)
libStartCleaner(L) ==
    IF ~L.stopped THEN L
    ELSE [L EXCEPT !.stopped = FALSE, !.stopClosed = FALSE,
                   !.cl = [pc |-> "loop", deadline |-> 0, expired |-> <<>>]]

\* New of part_000: stopCh is made, stopped is false, then startCleaner is called
LibNew ==
    libStartCleaner(
        [e |-> [id \in ElIds |-> NoEl], it |-> [k \in Keys |-> 0], h |-> <<>>,
         st |-> [added |-> 0, removed |-> 0, expired |-> 0, permanent |-> 0],
         stopped |-> FALSE, stopClosed |-> FALSE, cl |-> LibNoCleaner, pend |-> <<>>,
         fired |-> [k \in Keys |-> 0], calls |-> 0, life |-> FALSE, pc |-> "idle",
         op |-> "New"])

LibStore(L) == [e |-> L.e, it |-> L.it, h |-> L.h, st |-> L.st]

WithStore(L, S) == [L EXCEPT !.e = Collect(S.e, S.it, S.h), !.it = S.it, !.h = S.h, !.st = S.st]

\* SetTemporary of part_000
LibSetTemporaryOp(S, k, v, exp) ==
    LET id == S.it[k] IN
    IF id # 0
    THEN LET S1 == [S EXCEPT !.e[id].val = v, !.e[id].exp = exp]
         IN IF exp # ElementPermanent
            THEN WithHeap(S1, heapFix(HS(S1), S1.e[id].index))
            ELSE S1
    ELSE LET n == NewId(S.it, S.h)
             S1 == [S EXCEPT !.e[n] = [key |-> k, val |-> v, exp |-> exp, index |-> 0, pops |-> 0],
                             !.it[k] = n]
             S2 == IF exp # ElementPermanent
                   THEN WithHeap(S1, heapPush(HS(S1), n))
                   ELSE [S1 EXCEPT !.st.permanent = @ + 1]
         IN [S2 EXCEPT !.st.added = @ + 1]

\* SetPermanent of part_000: an existing element keeps its heap slot
LibSetPermanentOp(S, k, v) ==
    LET id == S.it[k] IN
    IF id # 0
    THEN [S EXCEPT !.e[id].val = v, !.e[id].exp = ElementPermanent]
    ELSE LET n == NewId(S.it, S.h)
         IN [S EXCEPT !.e[n] = [key |-> k, val |-> v, exp |-> ElementPermanent,
                                index |-> 0, pops |-> 0],
                      !.it[k] = n, !.st.added = @ + 1, !.st.permanent = @ + 1]

\* every variable of the worker-pool map: the library's map is another object
tmVars == <<els, items, expHeap, stats, onExpire, stopped, gen, stopClosed, cleaner,
            queue, queueClosed, worker, overflow, caller, panicked, last, delivered,
            stopRet, popLog, opCount, mu, liveKeys>>

LibCanCall == lib.calls < MaxLibOps /\ lib.pc = "idle"

LibCanCreate(k) == lib.it[k] # 0 \/ FreeIds(lib.it, lib.h) # {}

LibSetTemporary(k, v, exp) ==
    /\ LibCanCall /\ LibCanCreate(k)
    /\ lib' = [WithStore(lib, LibSetTemporaryOp(LibStore(lib), k, v, exp))
                 EXCEPT !.calls = @ + 1, !.op = "SetTemporary"]
    /\ UNCHANGED <<now, tmVars, ttlMap>>

LibSetPermanent(k, v) ==
    /\ LibCanCall /\ LibCanCreate(k)
    /\ lib' = [WithStore(lib, LibSetPermanentOp(LibStore(lib), k, v))
                 EXCEPT !.calls = @ + 1, !.op = "SetPermanent"]
    /\ UNCHANGED <<now, tmVars, ttlMap>>

\* StopCleaner of part_003 up to t.wg.Wait()
LibStopCleaner ==
    /\ LibCanCall
    /\ lib' = IF lib.stopped
              THEN [lib EXCEPT !.calls = @ + 1, !.life = TRUE, !.op = "StopCleaner"]
              ELSE [lib EXCEPT !.calls = @ + 1, !.life = TRUE, !.op = "StopCleaner",
                               !.stopped = TRUE,
                               !.stopClosed = TRUE, !.pc = "wgwait"]
    /\ UNCHANGED <<now, tmVars, ttlMap>>

\* t.wg.Wait() returns, then StopCleaner returns
LibStopWait ==
    /\ lib.pc = "wgwait"
    /\ lib.cl.pc \in {"none", "done"}
    /\ lib' = [lib EXCEPT !.pc = "idle"]
    /\ UNCHANGED <<now, tmVars, ttlMap>>

\* StartCleaner of part_003
LibStartCleaner ==
    /\ LibCanCall
    /\ lib' = [libStartCleaner(lib) EXCEPT !.calls = @ + 1, !.life = TRUE,
                                           !.op = "StartCleaner"]
    /\ UNCHANGED <<now, tmVars, ttlMap>>

\* the cleaner's loop body from t.mu.Lock() to the t.mu.Unlock() of the branch taken
LibCleanerLoop ==
    /\ lib.cl.pc = "loop"
    /\ lib' = IF Len(lib.h) = 0 THEN [lib EXCEPT !.cl.pc = "idle"]
              ELSE IF lib.e[lib.h[1]].exp - now <= 0
              THEN LET D == DrainOp(LibStore(lib), now, 1)
                   IN [WithStore(lib, D.S) EXCEPT !.cl.pc = "dispatch", !.cl.expired = D.expired]
              ELSE [lib EXCEPT !.cl.pc = "armed", !.cl.deadline = lib.e[lib.h[1]].exp]
    /\ UNCHANGED <<now, tmVars, ttlMap>>

\* case <-time.After(time.Second), case <-time.After(wait)
LibCleanerTimer ==
    /\ \/ lib.cl.pc = "idle"
       \/ lib.cl.pc = "armed" /\ now >= lib.cl.deadline
    /\ lib' = [lib EXCEPT !.cl.pc = "loop"]
    /\ UNCHANGED <<now, tmVars, ttlMap>>

\* case <-t.stopCh
LibCleanerStop ==
    /\ lib.cl.pc \in {"idle", "armed"}
    /\ lib.stopClosed
    /\ lib' = [lib EXCEPT !.cl.pc = "done"]
    /\ UNCHANGED <<now, tmVars, ttlMap>>

\* for _, el := range expired { if t.onExpire != nil { go t.onExpire(el.Key, el.Value) } }
LibCleanerDispatch ==
    /\ lib.cl.pc = "dispatch"
    /\ lib' = [lib EXCEPT !.cl.pc = "loop", !.cl.expired = <<>>,
                          !.pend = IF onExpire THEN @ \o lib.cl.expired ELSE @]
    /\ UNCHANGED <<now, tmVars, ttlMap>>

\* one go t.onExpire(el.Key, el.Value) goroutine runs
LibCallback(i) ==
    /\ i \in 1..Len(lib.pend)
    /\ lib' = [lib EXCEPT !.fired[lib.pend[i].key] = @ + 1,
                          !.pend = SubSeq(@, 1, i - 1) \o SubSeq(@, i + 1, Len(@))]
    /\ UNCHANGED <<now, tmVars, ttlMap>>

NoEntry == [key |-> 0, val |-> 0, exp |-> 0, n |-> 0, by |-> 0]

NoCleaner == [pc |-> "none", wake |-> 0, deadline |-> 0, expired |-> <<>>, sel |-> 0]
NewCleaner == [pc |-> "loop", wake |-> 0, deadline |-> 0, expired |-> <<>>, sel |-> 0]

Alive(c) == c.pc \notin {"none", "done"}

\* ------------------------------------------------------------------------
\* The timer-based TTLMap (part_002).
\* ttlMap is [it, size, tm, fired, calls, op]: it is m.items, key -> item
\* [ok, val, exp, timer] with ok FALSE for an absent key and timer 0 for nil;
\* size is m.size; tm is the sequence of the *time.Timer objects made by
\* time.AfterFunc, each [key, at, st, val] with st "armed", "stopped", "fired"
\* (the goroutine running m.expire(key) has been started and waits for m.mu),
\* "cb" (expire has unlocked and is about to call the callback with val) or
\* "done"; fired, calls and op are history fields.
\* ------------------------------------------------------------------------
\* number of public calls made on the TTLMap in one run
MaxTtlOps == 3

NoItem == [ok |-> FALSE, val |-> 0, exp |-> 0, timer |-> 0]

\* New of part_002
TtlNew ==
    [it |-> [k \in Keys |-> NoItem], size |-> 0, tm |-> <<>>,
     fired |-> [k \in Keys |-> 0], calls |-> 0, op |-> "New"]

\* timer.Stop() under the nil check of the callers: a timer that has already
\* fired is left alone, its function runs in its own goroutine
TimerStop(T, id) ==
    IF id # 0 /\ T[id].st = "armed" THEN [T EXCEPT ![id].st = "stopped"] ELSE T

\* time.AfterFunc(d, func() { m.expire(key) }) at clock: the new timer is the last of the result
AfterFunc(T, k, clock, d) == Append(T, [key |-> k, at |-> clock + d, st |-> "armed", val |-> 0])

\* SetTemporary of part_002
TtlSetTemporaryOp(M, k, v, ttl, clock) ==
    LET T1 == TimerStop(M.tm, M.it[k].timer)
        T2 == AfterFunc(T1, k, clock, ttl)
    IN [M EXCEPT !.tm = T2,
                 !.it[k] = [ok |-> TRUE, val |-> v, exp |-> clock + ttl, timer |-> Len(T2)],
                 !.size = IF M.it[k].ok THEN @ ELSE @ + 1]

\* SetPermanent of part_002
TtlSetPermanentOp(M, k, v) ==
    [M EXCEPT !.tm = TimerStop(M.tm, M.it[k].timer),
              !.it[k] = [ok |-> TRUE, val |-> v, exp |-> 0, timer |-> 0],
              !.size = IF M.it[k].ok THEN @ ELSE @ + 1]

\* Remove of part_002
TtlRemoveOp(M, k) ==
    IF ~M.it[k].ok THEN M
    ELSE [M EXCEPT !.tm = TimerStop(M.tm, M.it[k].timer), !.it[k] = NoItem, !.size = @ - 1]

\* SetExpiry of part_002; cb is TRUE when m.callback is non-nil
TtlSetExpiryOp(M, k, expiresAt, clock, cb) ==
    IF ~M.it[k].ok THEN M
    ELSE LET T1 == TimerStop(M.tm, M.it[k].timer) IN
         IF expiresAt <= clock
         THEN [M EXCEPT !.tm = T1, !.it[k] = NoItem, !.size = @ - 1,
                        !.fired[k] = IF cb THEN @ + 1 ELSE @]
         ELSE LET T2 == AfterFunc(T1, k, clock, expiresAt - clock)
              IN [M EXCEPT !.tm = T2, !.it[k].exp = expiresAt, !.it[k].timer = Len(T2)]

\* expire of part_002 up to m.mu.Unlock(), run by the goroutine of timer id
TtlExpireOp(M, id) ==
    LET k == M.tm[id].key IN
    IF ~M.it[k].ok THEN [M EXCEPT !.tm[id].st = "done"]
    ELSE [M EXCEPT !.tm[id].st = "cb", !.tm[id].val = M.it[k].val,
                   !.it[k] = NoItem, !.size = @ - 1]

TtlCanCall == ttlMap.calls < MaxTtlOps

TtlCalled(M, name) == [M EXCEPT !.calls = @ + 1, !.op = name]

TtlSetTemporary(k, v, ttl) ==
    /\ TtlCanCall
    /\ ttlMap' = TtlCalled(TtlSetTemporaryOp(ttlMap, k, v, ttl, now), "SetTemporary")
    /\ UNCHANGED <<now, tmVars, lib>>

TtlSetPermanent(k, v) ==
    /\ TtlCanCall
    /\ ttlMap' = TtlCalled(TtlSetPermanentOp(ttlMap, k, v), "SetPermanent")
    /\ UNCHANGED <<now, tmVars, lib>>

TtlRemove(k) ==
    /\ TtlCanCall
    /\ ttlMap' = TtlCalled(TtlRemoveOp(ttlMap, k), "Remove")
    /\ UNCHANGED <<now, tmVars, lib>>

TtlSetExpiry(k, expiresAt) ==
    /\ TtlCanCall
    /\ ttlMap' = TtlCalled(TtlSetExpiryOp(ttlMap, k, expiresAt, now, onExpire), "SetExpiry")
    /\ UNCHANGED <<now, tmVars, lib>>

\* the runtime fires an armed timer at or after its time and starts its function
TtlTimerFire(id) ==
    /\ id \in 1..Len(ttlMap.tm)
    /\ ttlMap.tm[id].st = "armed"
    /\ now >= ttlMap.tm[id].at
    /\ ttlMap' = [ttlMap EXCEPT !.tm[id].st = "fired", !.op = "fire"]
    /\ UNCHANGED <<now, tmVars, lib>>

\* expire takes m.mu, looks the key up and deletes it
TtlExpire(id) ==
    /\ id \in 1..Len(ttlMap.tm)
    /\ ttlMap.tm[id].st = "fired"
    /\ ttlMap' = [TtlExpireOp(ttlMap, id) EXCEPT !.op = "expire"]
    /\ UNCHANGED <<now, tmVars, lib>>

\* expire calls the callback outside the lock
TtlExpireCallback(id) ==
    /\ id \in 1..Len(ttlMap.tm)
    /\ ttlMap.tm[id].st = "cb"
    /\ ttlMap' = [ttlMap EXCEPT !.tm[id].st = "done", !.op = "callback",
                                !.fired[ttlMap.tm[id].key] = IF onExpire THEN @ + 1 ELSE @]
    /\ UNCHANGED <<now, tmVars, lib>>

Running == panicked = "none"

Init ==
    /\ now = 1
    /\ els = [id \in ElIds |-> NoEl]
    /\ items = [k \in Keys |-> 0]
    /\ expHeap = <<>>
    /\ stats = [added |-> 0, removed |-> 0, expired |-> 0, permanent |-> 0]
    /\ onExpire \in BOOLEAN
    /\ stopped = FALSE
    /\ gen = 1
    /\ stopClosed = [g \in Gens |-> FALSE]
    /\ cleaner = [g \in Gens |-> IF g = 1 THEN NewCleaner ELSE NoCleaner]
    /\ queue = <<>>
    /\ queueClosed = FALSE
    /\ worker = [w \in Workers |-> [pc |-> "recv", el |-> NoEntry]]
    /\ overflow = <<>>
    /\ caller = [c \in Callers |-> [pc |-> "idle", restart |-> FALSE, g |-> 0]]
    /\ panicked = "none"
    /\ last = [op |-> "New", key |-> 0, val |-> 0, arg |-> 0, was |-> "none", ret |-> TRUE, out |-> <<>>]
    /\ delivered = [k \in Keys |-> 0]
    /\ stopRet = FALSE
    /\ popLog = [lastExp |-> -1, runOrdered |-> TRUE, drainOrdered |-> TRUE]
    /\ opCount = 0
    /\ mu = Free
    /\ liveKeys = {}
    /\ lib = LibNew
    /\ ttlMap = TtlNew

\* time passes
Tick ==
    /\ Running
    /\ now < MaxTime
    /\ now' = now + 1
    /\ UNCHANGED <<storeVars, onExpire, poolVars, ctlVars, cleaner, panicked, last, popLog, opCount>>
    /\ UNCHANGED <<mu, liveKeys, lib, ttlMap>>

\* ------------------------------------------------------------------------
\* Public methods of the store
\* ------------------------------------------------------------------------
\* the keys set and not removed by the calls made so far, after one more call
LiveAfter(live, op, k, R) ==
    CASE op \in {"SetTemporary", "SetWithTTL", "SetPermanent"} -> live \cup {k}
      [] op = "Remove" -> live \ {k}
      [] op = "RemoveAll" -> {}
      [] op = "SetExpiry" /\ R.S.it[k] = 0 -> live \ {k}
      [] OTHER -> live

\* the effect of a method's critical section: R is its result, v the value passed
Effect(R, op, k, v, arg) ==
    /\ els' = R.S.e
    /\ items' = R.S.it
    /\ expHeap' = R.S.h
    /\ stats' = R.S.st
    /\ cleaner' = IF R.sig THEN [cleaner EXCEPT ![gen].wake = 1] ELSE cleaner
    /\ last' = [op |-> op, key |-> k, val |-> v, arg |-> arg, was |-> Kind(Store, k),
                ret |-> R.ret, out |-> R.out]
    /\ opCount' = opCount + 1
    /\ liveKeys' = LiveAfter(liveKeys, op, k, R)
    /\ UNCHANGED <<now, onExpire, ctlVars, panicked, popLog, lib, ttlMap>>

\* a call made by a caller of the store: Lock, the method's body, Unlock
Apply(R, op, k, v, arg) ==
    /\ Effect(R, op, k, v, arg)
    /\ UNCHANGED <<poolVars, mu>>

\* a call takes t.mu at its first statement
CanCall == Running /\ opCount < MaxOps /\ mu = Free

CanCreate(k) == items[k] # 0 \/ FreeIds(items, expHeap) # {}

SetTemporary(k, v, exp) ==
    /\ CanCall /\ CanCreate(k)
    /\ Apply(SetTemporaryOp(Store, k, v, exp), "SetTemporary", k, v, exp)

\* SetWithTTL treating only a negative ttl as permanent
SetWithTTLNegative(k, v, ttl) ==
    /\ CanCall /\ CanCreate(k)
    /\ Apply(IF ttl < 0 THEN SetPermanentOp(Store, k, v)
                        ELSE SetTemporaryOp(Store, k, v, now + ttl), "SetWithTTL", k, v, ttl)

SetWithTTL(k, v, ttl) ==
    /\ CanCall /\ CanCreate(k)
    /\ Apply(IF ttl <= 0 THEN SetPermanentOp(Store, k, v)
                         ELSE SetTemporaryOp(Store, k, v, now + ttl), "SetWithTTL", k, v, ttl)

SetPermanent(k, v) ==
    /\ CanCall /\ CanCreate(k)
    /\ Apply(SetPermanentOp(Store, k, v), "SetPermanent", k, v, 0)

SetExpiry(k, t) ==
    /\ CanCall
    /\ Apply(SetExpiryOp(Store, k, t, now), "SetExpiry", k, 0, t)

Remove(k) ==
    /\ CanCall
    /\ Apply(RemoveOp(Store, k), "Remove", k, 0, 0)

RemoveAll ==
    /\ CanCall
    /\ Apply(RemoveAllOp(Store), "RemoveAll", 0, 0, 0)

MakePermanent(k) ==
    /\ CanCall
    /\ Apply(MakePermanentOp(Store, k), "MakePermanent", k, 0, 0)

\* Get with lazy eviction: an entry whose time has passed is deleted and not found
GetEvicting(S, k, clock) ==
    LET id == S.it[k] IN
    IF id # 0 /\ S.e[id].exp # ElementPermanent /\ S.e[id].exp <= clock
    THEN [S |-> RemoveOp(S, k).S, sig |-> FALSE, ret |-> FALSE,
          out |-> <<0, ElementDoesntExist>>]
    ELSE [S |-> S, sig |-> FALSE, ret |-> GetOp(S, k)[3],
          out |-> <<GetOp(S, k)[1], GetOp(S, k)[2]>>]

\* a call of Get under t.mu.RLock(): the store it leaves and what it returns
GetCall(S, k, clock) ==
    [S |-> S, sig |-> FALSE, ret |-> GetOp(S, k)[3], out |-> <<GetOp(S, k)[1], GetOp(S, k)[2]>>]

\* Get(key): the returned (value, expiresAt, found) is recorded in last
Get(k) ==
    /\ CanCall
    /\ Apply(GetCall(Store, k, now), "Get", k, 0, 0)

\* ------------------------------------------------------------------------
\* The cleaner goroutine (startCleaner, go func)
\* ------------------------------------------------------------------------
LogPops(log, out) ==
    IF out = <<>> THEN log
    ELSE [lastExp |-> out[Len(out)].exp,
          runOrdered |-> log.runOrdered /\ Sorted(out) /\ log.lastExp <= out[1].exp,
          drainOrdered |-> log.drainOrdered /\ Sorted(out)]

\* t.mu.Lock() at the top of the loop, as a step of its own
CleanerLock(g) ==
    /\ Running
    /\ cleaner[g].pc = "loop"
    /\ mu = Free
    /\ mu' = <<"cleaner", g>>
    /\ cleaner' = [cleaner EXCEPT ![g].pc = "locked"]
    /\ UNCHANGED <<now, storeVars, onExpire, poolVars, ctlVars, panicked, last, popLog,
                   opCount, liveKeys, lib, ttlMap>>

\* a pass of the loop that ends without t.mu.Unlock()
CleanerLoopHolding(g) ==
    /\ Running
    /\ \/ cleaner[g].pc = "loop" /\ mu = Free
       \/ cleaner[g].pc = "locked" /\ mu = <<"cleaner", g>>
    /\ IF Len(expHeap) = 0
       THEN /\ cleaner' = [cleaner EXCEPT ![g].pc = "idle", ![g].sel = gen]
            /\ UNCHANGED <<storeVars, popLog>>
       ELSE IF els[expHeap[1]].exp - now <= 0
       THEN LET D == DrainOp(Store, now, g) IN
            /\ els' = D.S.e
            /\ items' = D.S.it
            /\ expHeap' = D.S.h
            /\ stats' = D.S.st
            /\ popLog' = LogPops(popLog, D.expired)
            /\ cleaner' = [cleaner EXCEPT ![g].pc = "dispatch", ![g].expired = D.expired]
       ELSE /\ cleaner' = [cleaner EXCEPT ![g].pc = "armed", ![g].sel = gen,
                                          ![g].deadline = els[expHeap[1]].exp]
            /\ UNCHANGED <<storeVars, popLog>>
    /\ mu' = IF Len(expHeap) = 0 THEN Free ELSE <<"cleaner", g>>
    /\ UNCHANGED <<now, onExpire, poolVars, ctlVars, panicked, last, opCount, liveKeys, lib, ttlMap>>

\* one pass of the loop from t.mu.Lock() to the t.mu.Unlock() of the branch taken
\* (the lock is taken here, or was taken by CleanerLock)
CleanerLoop(g) ==
    /\ Running
    /\ \/ cleaner[g].pc = "loop" /\ mu = Free
       \/ cleaner[g].pc = "locked" /\ mu = <<"cleaner", g>>
    /\ IF Len(expHeap) = 0
       THEN /\ cleaner' = [cleaner EXCEPT ![g].pc = "idle", ![g].sel = gen]
            /\ UNCHANGED <<storeVars, popLog>>
       ELSE IF els[expHeap[1]].exp - now <= 0
       THEN LET D == DrainOp(Store, now, g) IN
            /\ els' = D.S.e
            /\ items' = D.S.it
            /\ expHeap' = D.S.h
            /\ stats' = D.S.st
            /\ popLog' = LogPops(popLog, D.expired)
            /\ cleaner' = [cleaner EXCEPT ![g].pc = "dispatch", ![g].expired = D.expired]
       ELSE /\ cleaner' = [cleaner EXCEPT ![g].pc = "armed", ![g].sel = gen,
                                          ![g].deadline = els[expHeap[1]].exp]
            /\ UNCHANGED <<storeVars, popLog>>
    /\ mu' = Free
    /\ UNCHANGED <<now, onExpire, poolVars, ctlVars, panicked, last, opCount, liveKeys, lib, ttlMap>>

\* the read of t.stopCh in the select is not ordered with a later startCleaner
CleanerLateRead(g) ==
    /\ Running
    /\ cleaner[g].pc \in {"idle", "armed"}
    /\ cleaner[g].sel < gen
    /\ cleaner' = [cleaner EXCEPT ![g].sel = gen]
    /\ UNCHANGED <<now, storeVars, onExpire, poolVars, ctlVars, panicked, last, popLog, opCount>>
    /\ UNCHANGED <<mu, liveKeys, lib, ttlMap>>

\* case <-wakeCh
CleanerWake(g) ==
    /\ Running
    /\ cleaner[g].pc \in {"idle", "armed"}
    /\ cleaner[g].wake = 1
    /\ cleaner' = [cleaner EXCEPT ![g].pc = "loop", ![g].wake = 0]
    /\ UNCHANGED <<now, storeVars, onExpire, poolVars, ctlVars, panicked, last, popLog, opCount>>
    /\ UNCHANGED <<mu, liveKeys, lib, ttlMap>>

\* case <-t.stopCh
CleanerStop(g) ==
    /\ Running
    /\ cleaner[g].pc \in {"idle", "armed"}
    /\ stopClosed[cleaner[g].sel]
    /\ cleaner' = [cleaner EXCEPT ![g].pc = "done"]
    /\ UNCHANGED <<now, storeVars, onExpire, poolVars, ctlVars, panicked, last, popLog, opCount>>
    /\ UNCHANGED <<mu, liveKeys, lib, ttlMap>>

\* case <-timer.C
CleanerTimer(g) ==
    /\ Running
    /\ cleaner[g].pc = "armed"
    /\ now >= cleaner[g].deadline
    /\ cleaner' = [cleaner EXCEPT ![g].pc = "loop"]
    /\ UNCHANGED <<now, storeVars, onExpire, poolVars, ctlVars, panicked, last, popLog, opCount>>
    /\ UNCHANGED <<mu, liveKeys, lib, ttlMap>>

\* what the send of one expired entry does: [queue, overflow, panicked]
SendOp(q, closed, ov, el) ==
    IF closed THEN [queue |-> q, overflow |-> ov, panicked |-> "send on closed channel"]
    ELSE IF Len(q) < QueueCap
    THEN [queue |-> Append(q, el), overflow |-> ov, panicked |-> "none"]
    ELSE [queue |-> q, overflow |-> Append(ov, el), panicked |-> "none"]

\* select { case t.expireQueue <- el: default: go func(el) {...}(el) } for the next entry
CleanerDispatch(g) ==
    /\ Running
    /\ cleaner[g].pc = "dispatch"
    /\ LET el == Head(cleaner[g].expired)
           rest == Tail(cleaner[g].expired)
           R == SendOp(queue, queueClosed, overflow, el)
       IN /\ queue' = R.queue
          /\ overflow' = R.overflow
          /\ panicked' = R.panicked
          /\ cleaner' = [cleaner EXCEPT ![g].expired = rest,
                                        ![g].pc = IF rest = <<>> THEN "loop" ELSE "dispatch"]
    /\ UNCHANGED <<now, storeVars, onExpire, queueClosed, worker, delivered, ctlVars,
                   last, popLog, opCount>>
    /\ UNCHANGED <<mu, liveKeys, lib, ttlMap>>

\* ------------------------------------------------------------------------
\* The worker pool (startExpireWorkers) and the overflow goroutines
\* ------------------------------------------------------------------------
\* for el := range t.expireQueue: receive one entry
WorkerRecv(w) ==
    /\ Running
    /\ worker[w].pc = "recv"
    /\ queue # <<>>
    /\ queue' = Tail(queue)
    /\ worker' = [worker EXCEPT ![w] = [pc |-> "cb", el |-> Head(queue)]]
    /\ UNCHANGED <<now, storeVars, onExpire, queueClosed, overflow, delivered, ctlVars,
                   cleaner, panicked, last, popLog, opCount>>
    /\ UNCHANGED <<mu, liveKeys, lib, ttlMap>>

\* the loop body: if t.onExpire != nil { t.onExpire(el.Key, el.Value) }
WorkerDone(w) ==
    /\ Running
    /\ worker[w].pc \in {"cb", "cbout"}
    /\ delivered' = IF onExpire THEN [delivered EXCEPT ![worker[w].el.key] = @ + 1]
                                ELSE delivered
    /\ worker' = [worker EXCEPT ![w] = [pc |-> "recv", el |-> NoEntry]]
    /\ UNCHANGED <<now, storeVars, onExpire, queue, queueClosed, overflow, ctlVars,
                   cleaner, panicked, last, popLog, opCount>>
    /\ UNCHANGED <<mu, liveKeys, lib, ttlMap>>

\* the worker is inside `if t.onExpire != nil { t.onExpire(el.Key, el.Value) }`
InCallback(w) == worker[w].pc \in {"cb", "cbin", "cbout", "cbwg", "cbclose", "cbjoin"}

\* the calls a callback makes on the map it was registered with
ReentrantCall(S, op, k, v, exp, clock) ==
    CASE op = "Get" -> GetCall(S, k, clock)
      [] op = "Remove" -> RemoveOp(S, k)
      [] op = "SetTemporary" -> SetTemporaryOp(S, k, v, exp)

ReentrantOps == {"Get", "Remove", "SetTemporary"}

\* a callback running on worker w calls a method of the map: t.mu.Lock()
CallbackLock(w) ==
    /\ Running
    /\ onExpire
    /\ worker[w].pc = "cb"
    /\ opCount < MaxOps
    /\ mu = Free
    /\ mu' = <<"worker", w>>
    /\ worker' = [worker EXCEPT ![w].pc = "cbin"]
    /\ UNCHANGED <<now, storeVars, onExpire, queue, queueClosed, overflow, delivered, ctlVars,
                   cleaner, panicked, last, popLog, opCount, liveKeys, lib, ttlMap>>

\* the body of that method and its Unlock; the callback goes on
CallbackCall(w, op, exp) ==
    /\ Running
    /\ worker[w].pc = "cbin"
    /\ mu = <<"worker", w>>
    /\ op = "SetTemporary" => CanCreate(worker[w].el.key)
    /\ Effect(ReentrantCall(Store, op, worker[w].el.key, worker[w].el.val, exp, now),
              op, worker[w].el.key, worker[w].el.val, exp)
    /\ mu' = Free
    /\ worker' = [worker EXCEPT ![w].pc = "cbout"]
    /\ UNCHANGED <<queue, queueClosed, overflow, delivered>>

\* the callback running on worker w calls StopCleaner: up to t.mu.Unlock()
CallbackStopBegin(w) ==
    /\ Running
    /\ worker[w].pc = "cbin"
    /\ mu = <<"worker", w>>
    /\ IF stopped
       THEN /\ worker' = [worker EXCEPT ![w].pc = "cbout"]
            /\ stopRet' = TRUE
            /\ UNCHANGED <<stopped, stopClosed>>
       ELSE /\ stopped' = TRUE
            /\ stopClosed' = [stopClosed EXCEPT ![gen] = TRUE]
            /\ worker' = [worker EXCEPT ![w].pc = "cbwg"]
            /\ UNCHANGED stopRet
    /\ mu' = Free
    /\ last' = [op |-> "StopCleaner", key |-> 0, val |-> 0, arg |-> 0, was |-> "none",
                ret |-> TRUE, out |-> <<>>]
    /\ opCount' = opCount + 1
    /\ UNCHANGED <<now, storeVars, onExpire, queue, queueClosed, overflow, delivered, gen,
                   caller, cleaner, panicked, popLog, liveKeys, lib, ttlMap>>

\* t.wg.Wait() of that call
CallbackStopWgWait(w) ==
    /\ Running
    /\ worker[w].pc = "cbwg"
    /\ \A g \in Gens : ~Alive(cleaner[g])
    /\ worker' = [worker EXCEPT ![w].pc = "cbclose"]
    /\ UNCHANGED <<now, storeVars, onExpire, queue, queueClosed, overflow, delivered, ctlVars,
                   cleaner, panicked, last, popLog, opCount, mu, liveKeys, lib, ttlMap>>

\* close(t.expireQueue) of that call; t.expireWg.Wait() is next
CallbackStopClose(w) ==
    /\ Running
    /\ worker[w].pc = "cbclose"
    /\ IF queueClosed
       THEN /\ panicked' = "close of closed channel"
            /\ UNCHANGED <<queueClosed, worker>>
       ELSE /\ queueClosed' = TRUE
            /\ worker' = [worker EXCEPT ![w].pc = "cbjoin"]
            /\ UNCHANGED panicked
    /\ UNCHANGED <<now, storeVars, onExpire, queue, overflow, delivered, ctlVars,
                   cleaner, last, popLog, opCount, mu, liveKeys, lib, ttlMap>>

\* the workers whose deferred t.expireWg.Done() the StopCleaner call made by
\* the callback on worker w is waiting for in t.expireWg.Wait()
JoinedBy(w) ==
    IF worker[w].pc = "cbjoin" THEN {x \in Workers : worker[x].pc # "done"} ELSE {}

\* the range loop ends: the queue is closed and empty
WorkerExit(w) ==
    /\ Running
    /\ worker[w].pc = "recv"
    /\ queue = <<>>
    /\ queueClosed
    /\ worker' = [worker EXCEPT ![w].pc = "done"]
    /\ UNCHANGED <<now, storeVars, onExpire, queue, queueClosed, overflow, delivered,
                   ctlVars, cleaner, panicked, last, popLog, opCount>>
    /\ UNCHANGED <<mu, liveKeys, lib, ttlMap>>

RemoveAt(q, i) == SubSeq(q, 1, i - 1) \o SubSeq(q, i + 1, Len(q))

\* what go func(el *element) { t.onExpire(el.Key, el.Value) }(el) does: no nil check
OverflowOp(cb, d, el) ==
    IF cb THEN [delivered |-> [d EXCEPT ![el.key] = @ + 1], panicked |-> "none"]
    ELSE [delivered |-> d, panicked |-> "nil callback"]

OverflowRun(i) ==
    /\ Running
    /\ i \in 1..Len(overflow)
    /\ LET R == OverflowOp(onExpire, delivered, overflow[i])
       IN /\ delivered' = R.delivered
          /\ panicked' = R.panicked
    /\ overflow' = RemoveAt(overflow, i)
    /\ UNCHANGED <<now, storeVars, onExpire, queue, queueClosed, worker, ctlVars,
                   cleaner, last, popLog, opCount>>
    /\ UNCHANGED <<mu, liveKeys, lib, ttlMap>>

\* the callback run by overflow goroutine i calls a method of the map and goes on
OverflowReenter(i, op, exp) ==
    /\ Running
    /\ onExpire
    /\ i \in 1..Len(overflow)
    /\ opCount < MaxOps
    /\ mu = Free
    /\ op = "SetTemporary" => CanCreate(overflow[i].key)
    /\ Effect(ReentrantCall(Store, op, overflow[i].key, overflow[i].val, exp, now),
              op, overflow[i].key, overflow[i].val, exp)
    /\ UNCHANGED <<poolVars, mu>>

\* ------------------------------------------------------------------------
\* StopCleaner / StartCleaner / RestartCleaner
\* ------------------------------------------------------------------------
Returned(c, r) ==
    [caller EXCEPT ![c] = [pc |-> IF r THEN "start" ELSE "idle", restart |-> FALSE, g |-> 0]]

\* StopCleaner up to t.mu.Unlock(): r is TRUE when called from RestartCleaner
StopBegin(c, r, op) ==
    /\ CanCall
    /\ caller[c].pc = "idle"
    /\ IF stopped
       THEN /\ caller' = Returned(c, r)
            /\ stopRet' = TRUE
            /\ UNCHANGED <<stopped, stopClosed>>
       ELSE /\ stopped' = TRUE
            /\ stopClosed' = [stopClosed EXCEPT ![gen] = TRUE]
            /\ caller' = [caller EXCEPT ![c] = [pc |-> "wgwait", restart |-> r, g |-> gen]]
            /\ UNCHANGED stopRet
    /\ last' = [op |-> op, key |-> 0, val |-> 0, arg |-> 0, was |-> "none", ret |-> TRUE, out |-> <<>>]
    /\ opCount' = opCount + 1
    /\ UNCHANGED <<now, storeVars, onExpire, poolVars, gen, cleaner, panicked, popLog>>
    /\ UNCHANGED <<mu, liveKeys, lib, ttlMap>>

StopCleaner(c) == StopBegin(c, FALSE, "StopCleaner")

RestartCleaner(c) == StopBegin(c, TRUE, "RestartCleaner")

\* t.wg.Wait()
StopWgWait(c) ==
    /\ Running
    /\ caller[c].pc = "wgwait"
    /\ \A g \in Gens : ~Alive(cleaner[g])
    /\ caller' = [caller EXCEPT ![c].pc = "close"]
    /\ UNCHANGED <<now, storeVars, onExpire, poolVars, stopped, gen, stopClosed, stopRet,
                   cleaner, panicked, last, popLog, opCount>>
    /\ UNCHANGED <<mu, liveKeys, lib, ttlMap>>

\* close(t.expireQueue)
StopClose(c) ==
    /\ Running
    /\ caller[c].pc = "close"
    /\ IF queueClosed
       THEN /\ panicked' = "close of closed channel"
            /\ UNCHANGED <<queueClosed, caller>>
       ELSE /\ queueClosed' = TRUE
            /\ caller' = [caller EXCEPT ![c].pc = "expwait"]
            /\ UNCHANGED panicked
    /\ UNCHANGED <<now, storeVars, onExpire, queue, worker, overflow, delivered, stopped,
                   gen, stopClosed, stopRet, cleaner, last, popLog, opCount>>
    /\ UNCHANGED <<mu, liveKeys, lib, ttlMap>>

\* t.expireWg.Wait(), then StopCleaner returns
StopExpWait(c) ==
    /\ Running
    /\ caller[c].pc = "expwait"
    /\ \A w \in Workers : worker[w].pc = "done"
    /\ caller' = Returned(c, caller[c].restart)
    /\ stopRet' = TRUE
    /\ UNCHANGED <<now, storeVars, onExpire, poolVars, stopped, gen, stopClosed,
                   cleaner, panicked, last, popLog, opCount>>
    /\ UNCHANGED <<mu, liveKeys, lib, ttlMap>>

\* startCleaner without the test for a running cleaner
startCleanerAlways(st, g, sc, cl) ==
    [stopped |-> FALSE, gen |-> g + 1, stopClosed |-> sc,
     cleaner |-> [cl EXCEPT ![g + 1] = NewCleaner]]

\* startCleaner: [stopped, gen, stopClosed, cleaner] after the call
startCleanerOp(st, g, sc, cl) ==
    IF ~st THEN [stopped |-> st, gen |-> g, stopClosed |-> sc, cleaner |-> cl]
    ELSE [stopped |-> FALSE, gen |-> g + 1, stopClosed |-> sc,
          cleaner |-> [cl EXCEPT ![g + 1] = NewCleaner]]

\* StartCleaner, called directly or as the second half of RestartCleaner
StartCleaner(c) ==
    /\ Running
    /\ mu = Free
    /\ \/ /\ caller[c].pc = "idle"
          /\ opCount < MaxOps
          /\ opCount' = opCount + 1
          /\ last' = [op |-> "StartCleaner", key |-> 0, val |-> 0, arg |-> 0, was |-> "none", ret |-> TRUE, out |-> <<>>]
       \/ /\ caller[c].pc = "start"
          /\ UNCHANGED <<opCount, last>>
    /\ stopped => gen < MaxGen
    /\ LET R == startCleanerOp(stopped, gen, stopClosed, cleaner)
       IN /\ stopped' = R.stopped
          /\ gen' = R.gen
          /\ stopClosed' = R.stopClosed
          /\ cleaner' = R.cleaner
    /\ caller' = [caller EXCEPT ![c].pc = "idle"]
    /\ stopRet' = FALSE
    /\ UNCHANGED <<now, storeVars, onExpire, poolVars, panicked, popLog>>
    /\ UNCHANGED <<mu, liveKeys, lib, ttlMap>>

\* ------------------------------------------------------------------------
\* The program
\* ------------------------------------------------------------------------
DataCall ==
    \/ \E k \in Keys, v \in Vals, exp \in Times : SetTemporary(k, v, exp)
    \/ \E k \in Keys, v \in Vals : SetPermanent(k, v)
    \/ \E k \in Keys, t \in Times \cup {ZeroTime} : SetExpiry(k, t)
    \/ \E k \in Keys : Remove(k)
    \/ RemoveAll
    \/ \E k \in Keys : MakePermanent(k)

\* callers of the store with the cleaner that New started, never stopped
Next ==
    \/ Tick
    \/ DataCall
    \/ \E g \in Gens : CleanerLoop(g)
    \/ \E g \in Gens : CleanerWake(g)
    \/ \E g \in Gens : CleanerTimer(g)
    \/ \E g \in Gens : CleanerDispatch(g)
    \/ \E w \in Workers : WorkerRecv(w)
    \/ \E w \in Workers : WorkerDone(w)
    \/ \E i \in 1..Len(overflow) : OverflowRun(i)

\* New(onExpire, workerCount) with a callback, and with nil
InitCallback == Init /\ onExpire

InitNil == Init /\ ~onExpire

Spec == InitCallback /\ [][Next]_vars

SpecNil == InitNil /\ [][Next]_vars

\* the steps of the cleaner, the workers and the overflow goroutines when the
\* cleaner is stopped and started
Background ==
    \/ Tick
    \/ \E g \in Gens : CleanerLoop(g)
    \/ \E g \in Gens : CleanerWake(g)
    \/ \E g \in Gens : CleanerStop(g)
    \/ \E g \in Gens : CleanerTimer(g)
    \/ \E g \in Gens : CleanerDispatch(g)
    \/ \E w \in Workers : WorkerRecv(w)
    \/ \E w \in Workers : WorkerDone(w)
    \/ \E w \in Workers : WorkerExit(w)
    \/ \E i \in 1..Len(overflow) : OverflowRun(i)

\* one caller sets and removes entries and stops, starts and restarts the cleaner
NextLife ==
    \/ Background
    \/ \E k \in Keys, v \in Vals, exp \in Times : SetTemporary(k, v, exp)
    \/ \E k \in Keys : Remove(k)
    \/ StopCleaner(1)
    \/ RestartCleaner(1)
    \/ StopWgWait(1)
    \/ StopClose(1)
    \/ StopExpWait(1)
    \/ StartCleaner(1)

SpecLife == InitCallback /\ [][NextLife]_vars

\* callers set, read and remove entries with values 1..MaxDataVal while the
\* cleaner that New started runs
MaxDataOps == 3

MaxDataVal == 2

DataVals == 1..MaxDataVal

TTLs == -1..MaxTTL

MoreData == opCount < MaxDataOps

NextData ==
    \/ Tick
    \/ \E g \in Gens : CleanerLoop(g)
    \/ \E g \in Gens : CleanerWake(g)
    \/ \E g \in Gens : CleanerTimer(g)
    \/ \E g \in Gens : CleanerDispatch(g)
    \/ \E w \in Workers : WorkerRecv(w)
    \/ \E w \in Workers : WorkerDone(w)
    \/ \E i \in 1..Len(overflow) : OverflowRun(i)
    \/ \E k \in Keys, v \in DataVals, exp \in Times : MoreData /\ SetTemporary(k, v, exp)
    \/ \E k \in Keys, v \in DataVals, ttl \in TTLs : MoreData /\ SetWithTTL(k, v, ttl)
    \/ \E k \in Keys, v \in DataVals : MoreData /\ SetPermanent(k, v)
    \/ \E k \in Keys : MoreData /\ Remove(k)
    \/ \E k \in Keys : MoreData /\ Get(k)

SpecData == InitCallback /\ [][NextData]_vars

\* the callback re-enters the map; t.mu is held between the steps of the
\* cleaner and of the callback's call
NextReentry ==
    \/ Tick
    \/ \E k \in Keys, v \in Vals, exp \in Times : MoreData /\ SetTemporary(k, v, exp)
    \/ \E g \in Gens : CleanerLock(g)
    \/ \E g \in Gens : CleanerLoop(g)
    \/ \E g \in Gens : CleanerWake(g)
    \/ \E g \in Gens : CleanerTimer(g)
    \/ \E g \in Gens : CleanerDispatch(g)
    \/ \E w \in Workers : WorkerRecv(w)
    \/ \E w \in Workers : CallbackLock(w)
    \/ \E w \in Workers, op \in ReentrantOps, exp \in Times : CallbackCall(w, op, exp)
    \/ \E w \in Workers : CallbackStopBegin(w)
    \/ \E w \in Workers : CallbackStopWgWait(w)
    \/ \E w \in Workers : CallbackStopClose(w)
    \/ \E g \in Gens : CleanerStop(g)
    \/ \E w \in Workers : WorkerDone(w)
    \/ \E i \in 1..Len(overflow), op \in ReentrantOps, exp \in Times : OverflowReenter(i, op, exp)
    \/ \E i \in 1..Len(overflow) : OverflowRun(i)

SpecReentry == InitCallback /\ [][NextReentry]_vars

\* the library's map: its callers, its cleaner and its callback goroutines
NextLib ==
    \/ Tick
    \/ \E k \in Keys, v \in Vals, exp \in Times : LibSetTemporary(k, v, exp)
    \/ \E k \in Keys, v \in Vals : LibSetPermanent(k, v)
    \/ LibStopCleaner
    \/ LibStopWait
    \/ LibStartCleaner
    \/ LibCleanerLoop
    \/ LibCleanerTimer
    \/ LibCleanerStop
    \/ LibCleanerDispatch
    \/ \E i \in 1..Len(lib.pend) : LibCallback(i)

\* a goroutine that can take a step takes it: the cleaner, the callback
\* goroutines and the caller waiting in t.wg.Wait()
LibFair ==
    /\ WF_vars(LibCleanerLoop)
    /\ WF_vars(LibCleanerTimer)
    /\ WF_vars(LibCleanerStop)
    /\ WF_vars(LibCleanerDispatch)
    /\ WF_vars(LibStopWait)
    /\ WF_vars(\E i \in 1..Len(lib.pend) : LibCallback(i))

SpecLib == InitCallback /\ [][NextLib]_vars /\ LibFair

\* the TTLMap: its callers, the runtime's timers and the expire goroutines
NextTTL ==
    \/ Tick
    \/ \E k \in Keys, v \in Vals, ttl \in TTLs : TtlSetTemporary(k, v, ttl)
    \/ \E k \in Keys, v \in Vals : TtlSetPermanent(k, v)
    \/ \E k \in Keys : TtlRemove(k)
    \/ \E k \in Keys, expiresAt \in Times \cup {MaxTime + 1} : TtlSetExpiry(k, expiresAt)
    \/ \E id \in 1..Len(ttlMap.tm) : TtlTimerFire(id)
    \/ \E id \in 1..Len(ttlMap.tm) : TtlExpire(id)
    \/ \E id \in 1..Len(ttlMap.tm) : TtlExpireCallback(id)

SpecTTL == InitCallback /\ [][NextTTL]_vars

\* several callers stop, start and restart the cleaner concurrently
RaceCall == opCount < MaxRaceOps

\* one caller sets entries and calls StopCleaner on a map that is never restarted
NextStop ==
    \/ Background
    \/ \E k \in Keys, v \in Vals, exp \in Times : RaceCall /\ SetTemporary(k, v, exp)
    \/ RaceCall /\ StopCleaner(1)
    \/ StopWgWait(1)
    \/ StopClose(1)
    \/ StopExpWait(1)

\* CleanerLoop(g) can be taken: the cleaner is at the top of its loop and t.mu is free
LoopReady(g) == Running /\ cleaner[g].pc = "loop" /\ mu = Free

\* a goroutine that can take a step takes it: the cleaner (weak fairness of
\* CleanerLoop written out with its guard), the workers, the caller in StopCleaner
StopFair ==
    /\ \A g \in Gens : /\ WF_vars(CleanerStop(g))
                        /\ WF_vars(CleanerDispatch(g))
                        /\ ([]<>(~LoopReady(g)) \/ []<><<CleanerLoop(g)>>_vars)
    /\ \A w \in Workers : WF_vars(WorkerRecv(w)) /\ WF_vars(WorkerDone(w)) /\ WF_vars(WorkerExit(w))
    /\ WF_vars(StopWgWait(1)) /\ WF_vars(StopClose(1)) /\ WF_vars(StopExpWait(1))

SpecStop == InitCallback /\ [][NextStop]_vars /\ StopFair

NextRace ==
    \/ Background
    \/ \E g \in Gens : CleanerLateRead(g)
    \/ \E k \in Keys, v \in Vals, exp \in Times : RaceCall /\ SetTemporary(k, v, exp)
    \/ \E k \in Keys, v \in Vals, ttl \in 0..MaxTTL : RaceCall /\ SetWithTTL(k, v, ttl)
    \/ \E k \in Keys : RaceCall /\ Remove(k)
    \/ \E c \in Callers : RaceCall /\ StopCleaner(c)
    \/ \E c \in Callers : RaceCall /\ RestartCleaner(c)
    \/ \E c \in Callers : StopWgWait(c)
    \/ \E c \in Callers : StopClose(c)
    \/ \E c \in Callers : StopExpWait(c)
    \/ \E c \in Callers : (caller[c].pc = "idle" => RaceCall) /\ StartCleaner(c)

SpecRace == InitCallback /\ [][NextRace]_vars

\* ------------------------------------------------------------------------
\* Properties
\* ------------------------------------------------------------------------
\* this step is a call of the public method op
Called(op) == opCount' = opCount + 1 /\ last'.op = op

InHeap(S, id) == \E i \in 1..Len(S.h) : S.h[i] = id

SeqSet(q) == {q[i] : i \in 1..Len(q)}

\* the expired entries popped by the cleaner whose callback has not returned
InFlight ==
    UNION {SeqSet(cleaner[g].expired) : g \in Gens}
      \cup SeqSet(queue) \cup SeqSet(overflow)
      \cup {worker[w].el : w \in {x \in Workers : InCallback(x)}}

\* C1: once StartCleaner has restarted the cleaner after a StopCleaner, the
\* restarted cleaner expires due entries and hands them to dispatch without
\* failing: its send to the dispatch queue never panics.
C1_RestartResumes == ~(gen > 1 /\ panicked = "send on closed channel")

\* C2: with the cleaner never stopped and a non-nil callback, the callback is
\* invoked exactly once per expired entry: no element object is popped, and so
\* handed to dispatch, a second time.
C2_CallbackOnce == \A el \in InFlight : el.n = 1

\* C3: SetTemporary(k, v, t) with t not the permanent sentinel on a permanent
\* key makes it temporary: Get(k) reports expiresAt = t and the entry is in
\* the heap.
C3_PermanentBecomesTemporary ==
    [][(Called("SetTemporary") /\ last'.was = "perm" /\ last'.arg # ElementPermanent)
        => /\ GetOp(Store', last'.key)[2] = last'.arg
           /\ InHeap(Store', items'[last'.key])]_vars

\* C4: SetTemporary(k, v, t) with t the permanent sentinel leaves the store as
\* SetPermanent(k, v) would, for every prior state of k: k is permanent and no
\* heap slot holds its entry.
C4_SentinelIsPermanent ==
    [][(Called("SetTemporary") /\ last'.arg = ElementPermanent)
        => /\ \E v \in Vals : Store' = SetPermanentOp(Store, last'.key, v).S
           /\ Kind(Store', last'.key) = "perm"
           /\ ~InHeap(Store', items'[last'.key])]_vars

\* C5: SetPermanent(k, v) leaves k present and permanent and out of the heap;
\* a temporary k raises the permanent counter by one and leaves added alone, an
\* absent k raises added by one, a permanent k changes no counter.
C5_SetPermanent ==
    [][Called("SetPermanent")
        => LET k == last'.key IN
           /\ Kind(Store', k) = "perm"
           /\ last'.was = "temp" =>
                /\ ~InHeap(Store', items[k])
                /\ stats' = [stats EXCEPT !.permanent = @ + 1]
                /\ items'[k] = items[k]
           /\ last'.was = "absent" => stats'.added = stats.added + 1
           /\ last'.was # "absent" => stats'.added = stats.added
           /\ last'.was = "perm" => stats' = stats]_vars

\* C6: a nil callback is legal: no dispatch path invokes it and fails.
C6_NilCallbackLegal == panicked # "nil callback"

\* C7: when StopCleaner returns after shutting the cleaner down, every entry
\* the cleaner popped has had its callback run to completion.
C7_StopDrains ==
    [][\A c \in Callers : (caller[c].pc = "expwait" /\ caller'[c].pc # "expwait")
        => \A el \in InFlight' : el.by > caller[c].g]_vars

\* C8: between the return of a StopCleaner call and the next StartCleaner no
\* expiration fires: the expired counter stays and only callers delete keys.
C8_NoExpiryWhileStopped ==
    [][(stopRet /\ stopRet')
        => /\ stats'.expired = stats.expired
           /\ \A k \in Keys : (items[k] # 0 /\ items'[k] = 0) => opCount' = opCount + 1]_vars

\* C9: SetExpiry(k, t) on an existing key with t non-zero and not after the
\* current time deletes k, from the heap too when it was temporary, counts it
\* as removed and not as expired, hands nothing to dispatch and returns false.
C9_SetExpiryPast ==
    [][(Called("SetExpiry") /\ last'.was \in {"perm", "temp"}
          /\ last'.arg # ZeroTime /\ last'.arg <= now)
        => /\ items'[last'.key] = 0
           /\ last'.was = "temp" => ~InHeap(Store', items[last'.key])
           /\ stats' = [stats EXCEPT !.removed = @ + 1]
           /\ InFlight' = InFlight
           /\ delivered' = delivered
           /\ last'.ret = FALSE]_vars

\* C10: over the whole run the cleaner pops entries in non-decreasing
\* expiresAt order.
C10_PopOrder == popLog.runOrdered

\* within one drain the cleaner pops entries in non-decreasing expiresAt order
DrainOrder == popLog.drainOrdered

\* an index field of a live element addresses a slot of the heap array
IndexInRange == \A id \in Referenced(items, expHeap) : els[id].index < Len(expHeap) \/ els[id].index <= 0

\* C12: MakePermanent(k) on an absent key returns false and changes nothing;
\* on an existing key it returns true, and a second call right after it
\* returns true again and leaves the store, the heap and every counter as
\* the first call left them.
C12_MakePermanentIdempotent ==
    [][Called("MakePermanent") =>
         LET k == last'.key IN
         /\ last'.was = "absent" => (last'.ret = FALSE /\ UNCHANGED storeVars)
         /\ last'.was # "absent" =>
              /\ last'.ret = TRUE
              /\ MakePermanentOp(Store', k).ret = TRUE
              /\ MakePermanentOp(Store', k).S = Store']_vars

\* MakePermanent has just made a temporary key permanent
C12_Reached ==
    /\ last.op = "MakePermanent" /\ last.was = "temp" /\ last.ret
    /\ Kind(Store, last.key) = "perm"
    /\ stats.permanent > 0

\* C14: Remove(k) on an existing key deletes it from the store, takes it out
\* of the heap if it was temporary and adds one to the removed counter, with
\* no callback; Remove(k) on an absent key changes nothing.
C14_Remove ==
    [][Called("Remove") =>
         LET k == last'.key IN
         /\ last'.was = "absent" => UNCHANGED storeVars
         /\ last'.was # "absent" =>
              /\ items' = [items EXCEPT ![k] = 0]
              /\ last'.was = "temp" => ~InHeap(Store', items[k])
              /\ stats' = [stats EXCEPT !.removed = @ + 1]
         /\ InFlight' = InFlight /\ delivered' = delivered]_vars

RECURSIVE SumDelivered(_)
SumDelivered(n) == IF n = 0 THEN 0 ELSE delivered[n] + SumDelivered(n - 1)

RECURSIVE SumExpired(_)
SumExpired(g) == IF g = 0 THEN 0 ELSE Len(cleaner[g].expired) + SumExpired(g - 1)

\* callbacks that have returned, and expired entries waiting for theirs
DeliveredTotal == SumDelivered(NumKeys)

PendingTotal ==
    Len(queue) + Len(overflow) + SumExpired(MaxGen)
      + Cardinality({w \in Workers : InCallback(w)})

\* C15: RemoveAll empties the store and the heap in one critical section and
\* invokes no callback; every callback is for an entry the cleaner popped
\* from the heap, so none is ever invoked for an entry RemoveAll cleared.
C15_RemoveAll ==
    [][/\ Called("RemoveAll") =>
            /\ \A k \in Keys : items'[k] = 0
            /\ expHeap' = <<>>
            /\ stats' = stats
            /\ UNCHANGED <<queue, overflow, worker, delivered>>
            /\ \A g \in Gens : cleaner'[g].expired = cleaner[g].expired
       /\ DeliveredTotal' + PendingTotal' = stats'.expired]_vars

\* RemoveAll has just cleared a store that held a temporary entry in its heap
C15_Reached ==
    /\ last.op = "RemoveAll"
    /\ stats.added > stats.removed + stats.expired
    /\ stats.added > stats.permanent
    /\ expHeap = <<>>

\* C16: the counters returned by Stats() describe one state of the map:
\* current is the number of live entries (Size()) and
\* added = removed + expired + current.
C16_StatsConsistent ==
    LET s == StatsOp(Store) IN
    /\ s.current = SizeOp(Store)
    /\ s.added = s.removed + s.expired + s.current

\* C13: Get(k) is read-only: it changes neither the store, the heap nor the
\* counters, evicts nothing and wakes nobody.  For a present key, also one
\* whose expiresAt has passed and that the cleaner has not popped yet, it
\* returns (value, expiresAt, true); for an absent key (nil, ElementDoesntExist, false).
C13_GetReadOnly ==
    [][Called("Get") =>
         LET k == last'.key IN
         /\ UNCHANGED <<storeVars, poolVars, cleaner>>
         /\ items[k] = 0 => (last'.ret = FALSE /\ last'.out = <<0, ElementDoesntExist>>)
         /\ items[k] # 0 =>
              (last'.ret = TRUE /\ last'.out = <<els[items[k]].val, els[items[k]].exp>>)]_vars

\* Get has just returned an entry whose time has passed and that is still stored
C13_Reached ==
    /\ last.op = "Get" /\ last.ret
    /\ items[last.key] # 0
    /\ last.out[2] # ElementPermanent /\ last.out[2] < now
    /\ els[items[last.key]].exp = last.out[2]
    /\ stats.expired = 0

SetOps == {"SetTemporary", "SetWithTTL", "SetPermanent"}

\* C17: as long as no entry has expired, Size() is the number of distinct
\* keys that were set and not removed after their last set, and setting an
\* existing key again does not change Size().
C17_SizeCountsLiveKeys ==
    [][/\ stats'.expired = 0 => SizeOp(Store') = Cardinality(liveKeys')
       /\ (\E op \in SetOps : Called(op)) /\ last'.was # "absent"
            => SizeOp(Store') = SizeOp(Store)]_vars

\* an existing key has just been set again while two keys are live
C17_Reached ==
    /\ last.op \in SetOps /\ last.was # "absent"
    /\ stats.expired = 0
    /\ Cardinality(liveKeys) = 2 /\ SizeOp(Store) = 2

StartStep(c) == caller[c].pc \in {"idle", "start"} /\ caller'[c].pc = "idle" /\ stopRet' = FALSE

\* C19: StartCleaner while the cleaner is running (t.stopped is false, as
\* right after New) starts no second cleaner and leaves the stop channel, the
\* wake signal and the running cleaner as they are.
C19_StartCleanerIdempotent ==
    [][((\E c \in Callers : Called("StartCleaner") \/ (StartStep(c) /\ caller[c].pc = "start"))
          /\ ~stopped)
         => UNCHANGED <<stopped, gen, stopClosed, cleaner, storeVars, poolVars>>]_vars

\* StartCleaner was called right after New and the first cleaner is the only one
C19_Reached ==
    /\ last.op = "StartCleaner" /\ opCount = 1
    /\ ~stopped /\ gen = 1 /\ Alive(cleaner[1])
    /\ \A g \in Gens \ {1} : cleaner[g] = NoCleaner


\* ------------------------------------------------------------------------
\* C11: the expiration callback is never invoked by a goroutine that holds
\* t.mu (a worker inside the callback holds the lock only between the Lock
\* and the Unlock of a method the callback itself calls, and the cleaner
\* holds it only inside its drain, never while it dispatches), and a method
\* of the map called by the callback completes: it never waits for the
\* goroutine that is running the callback.
\* ------------------------------------------------------------------------
LockHolders ==
    {<<"worker", w>> : w \in {x \in Workers : worker[x].pc = "cbin"}}
      \cup {<<"cleaner", g>> : g \in {x \in Gens : cleaner[x].pc = "locked"}}

C11_CallbackReentryCompletes ==
    /\ mu # Free => mu \in LockHolders
    /\ \A w \in Workers : worker[w].pc \in {"cb", "cbout"} => mu # <<"worker", w>>
    /\ \A g \in Gens : cleaner[g].pc = "dispatch" => mu # <<"cleaner", g>>
    /\ \A w \in Workers : w \notin JoinedBy(w)

\* ------------------------------------------------------------------------
\* C20: in the library's map the cleaner runs from New on: as long as no
\* StopCleaner, StartCleaner or RestartCleaner call has been made, a
\* temporary entry whose expiry has passed is eventually removed from the
\* store with the callback fired for its key (or a caller has set the key
\* again in the meantime).
\* ------------------------------------------------------------------------
LibDue(k) ==
    /\ lib.it[k] # 0
    /\ lib.e[lib.it[k]].exp # ElementPermanent
    /\ lib.e[lib.it[k]].exp <= now

C20_NewStartsCleaner ==
    \A k \in Keys :
        [](( ~lib.life /\ LibDue(k)) =>
            <>(\/ lib.life
               \/ lib.it[k] = 0 /\ lib.fired[k] > 0
               \/ lib.it[k] # 0 /\ ~LibDue(k)))

\* ------------------------------------------------------------------------
\* C21: whenever t.mu is free, an entry of the store is in the expiry heap
\* exactly when its ExpiresAt is not ElementPermanent, every heap element is
\* the entry that t.items holds for its key, each heap element's index field
\* is its position in the heap array, and the heap root has the least
\* ExpiresAt of all temporary entries.
\* ------------------------------------------------------------------------
TemporaryIds == {items[k] : k \in {x \in Keys : Kind(Store, x) = "temp"}}

C21_HeapStoreConsistent ==
    mu = Free =>
        /\ \A k \in Keys :
             items[k] # 0 => (InHeap(Store, items[k]) <=> els[items[k]].exp # ElementPermanent)
        /\ \A i \in 1..Len(expHeap) : items[els[expHeap[i]].key] = expHeap[i]
        /\ \A i \in 1..Len(expHeap) : els[expHeap[i]].index = i - 1
        /\ TemporaryIds # {} =>
             /\ Len(expHeap) > 0
             /\ \A id \in TemporaryIds : els[expHeap[1]].exp <= els[id].exp


\* ------------------------------------------------------------------------
\* C22: no wakeup is missed. A cleaner that waits in its select with no wake
\* signal pending waits for nothing staler than the heap: idle only while the
\* heap is empty, and on a timer whose deadline is not after the ExpiresAt of
\* the heap root.
\* ------------------------------------------------------------------------
C22_NoMissedWakeup ==
    \A g \in Gens :
        cleaner[g].wake = 0 =>
            /\ cleaner[g].pc = "idle" => Len(expHeap) = 0
            /\ (cleaner[g].pc = "armed" /\ Len(expHeap) > 0)
                   => cleaner[g].deadline <= els[expHeap[1]].exp


\* ------------------------------------------------------------------------
\* C23: once StopCleaner has closed the stop channel of a cleaner, that
\* cleaner begins no drain: no pass of its loop that takes t.mu after the
\* close pops an entry.
\* ------------------------------------------------------------------------
C23_NoDrainAfterStop ==
    [][\A g \in Gens :
         (stopClosed[g] /\ cleaner[g].pc = "loop") => cleaner'[g].pc # "dispatch"]_vars


\* ------------------------------------------------------------------------
\* C24: a StopCleaner made after the cleaner was restarted shuts down like
\* the first one: it does not panic on the dispatch queue that the first
\* StopCleaner closed.
\* ------------------------------------------------------------------------
C24_StopAfterRestart == panicked # "close of closed channel"


\* ------------------------------------------------------------------------
\* C25: every callback is run by a worker of the pool, so the number of
\* callback invocations in progress never exceeds the worker count. An
\* overflow goroutine consists of the call of t.onExpire alone: each one
\* started is an invocation in progress.
\* ------------------------------------------------------------------------
CallbacksInProgress == Cardinality({w \in Workers : InCallback(w)}) + Len(overflow)

C25_CallbacksBoundedByPool == CallbacksInProgress <= NumWorkers


\* ------------------------------------------------------------------------
\* C26: the cleaner holds t.mu only between the Lock at the top of its loop
\* and the Unlock of the branch it takes: never while it waits in a select
\* (idle or on its timer), nor while it sends popped entries to the queue or
\* starts an overflow goroutine, nor after it has returned.
\* ------------------------------------------------------------------------
C26_CleanerLockOnlyInCriticalSection ==
    \A g \in Gens :
        cleaner[g].pc \in {"idle", "armed", "dispatch", "loop", "done", "none"}
            => mu # <<"cleaner", g>>

\* the cleaner is sending the entries it popped while a callback holds t.mu
C26_Reached ==
    \E g \in Gens, w \in Workers :
        /\ cleaner[g].pc = "dispatch"
        /\ cleaner[g].expired # <<>>
        /\ mu = <<"worker", w>>


\* ------------------------------------------------------------------------
\* C27: under concurrent StopCleaner, StartCleaner and RestartCleaner calls
\* at most one cleaner goroutine is alive at any time, and a cleaner waits
\* on the stop channel that StopCleaner closes for it (the one made when it
\* was started), so that it observes its stop request and exits.
\* ------------------------------------------------------------------------
AliveCleaners == {g \in Gens : Alive(cleaner[g])}

C27_OneCleaner ==
    /\ Cardinality(AliveCleaners) <= 1
    /\ \A g \in Gens : cleaner[g].pc \in {"idle", "armed"} => cleaner[g].sel = g


\* ------------------------------------------------------------------------
\* C28: a StopCleaner call made by a caller that is not a callback returns.
\* What it needs first is checked here: the call is never cut short, that
\* is, the process does not panic while a caller is between the Lock of
\* StopCleaner and its return.
\* ------------------------------------------------------------------------
InStopCleaner(c) == caller[c].pc \in {"wgwait", "close", "expwait"}

C28_StopCleanerReturns == (\E c \in Callers : InStopCleaner(c)) => Running

\* on a map that was never restarted (SpecStop) the call does return
FirstStopCleanerReturns == InStopCleaner(1) ~> (caller[1].pc = "idle")


\* ------------------------------------------------------------------------
\* C29: the cleaner never expires an entry early: every entry it pops and
\* deletes has, at that moment, an ExpiresAt at or before the current time,
\* so an entry whose expiry a caller moved to the future is not removed
\* before the new expiry.
\* ------------------------------------------------------------------------
C29_NoEarlyExpiry ==
    [][\A g \in Gens :
         (cleaner[g].pc = "loop" /\ cleaner'[g].pc = "dispatch")
            => /\ \A i \in 1..Len(cleaner'[g].expired) : cleaner'[g].expired[i].exp <= now
               /\ \A k \in Keys :
                    (items[k] # 0 /\ items'[k] = 0) => els[items[k]].exp <= now]_vars


\* ------------------------------------------------------------------------
\* C30: in the library's map, SetPermanent on a key leaves the key out of
\* the expiry heap, and while a key is permanent the cleaner does not pop
\* it: the key stays in the store and no entry is handed to the callback.
\* ------------------------------------------------------------------------
LibPermanent(L, k) == L.it[k] # 0 /\ L.e[L.it[k]].exp = ElementPermanent

C30_PermanentLeavesHeap ==
    [][/\ \A k \in Keys, v \in Vals :
            LibSetPermanent(k, v) => ~InHeap(LibStore(lib'), lib'.it[k])
       /\ \A k \in Keys :
            LibPermanent(lib, k) => (lib'.it[k] # 0 /\ lib'.st.expired = lib.st.expired)]_vars

\* the item of key k is present and its expiration has not elapsed: it is
\* permanent (no timer) or its expiration time is still ahead
TtlNotDue(M, k, clock) == M.it[k].ok /\ (M.it[k].timer = 0 \/ M.it[k].exp > clock)

\* C31: in the timer-based TTLMap a key is never removed by expiration before
\* its current expiration time: a step of expire (the function of a timer
\* that has fired) does not delete a key whose item is permanent or expires
\* later than now, so no callback is started for it either; in particular
\* not when SetTemporary or SetExpiry gave the key a later expiry while the
\* expire call of its previous timer was waiting for the lock.
C31_NoEarlyTimerExpiry ==
    [][\A id \in 1..Len(ttlMap.tm), k \in Keys :
          (TtlExpire(id) /\ TtlNotDue(ttlMap, k, now)) => ttlMap'.it[k].ok]_vars

====
